---- MODULE Spec2Model ----
(***************************************************************************)
(* Model of dgutils.schema.Schema (src/src/dgutils/schema.py): the rule    *)
(* tree, leaf and tree validation, dotted-path resolution, get / set, the  *)
(* persisted user data file and the "changed" signal; of Schema.bind and  *)
(* the Binding it returns; and of dgutils.linker.Linker                    *)
(* (src/src/dgutils/linker.py).                                            *)
(*                                                                         *)
(* Specifications:                                                     *)
(*   Spec           the Schema object: construction, then get and set      *)
(*                  calls with arbitrary paths and values;                 *)
(*   SpecValidator  the pure functions _validate_leaf and                  *)
(*                  _apply_validation_and_cleanup applied to bounded       *)
(*                  inputs;                                                *)
(*   SpecBind       a constructed Schema with bind, unbind, set and edits  *)
(*                  of the bound targets, signals dispatched               *)
(*                  synchronously;                                         *)
(*   SpecPlain      the same with several bindings of one path, made       *)
(*                  without transforms;                                    *)
(*   SpecOwner      SpecBind's Schema and target with an owning Linker:   *)
(*                  the owner may register the Bindings it gets from bind  *)
(*                  and tears its Linker down;                             *)
(*   SpecLinker     a Linker with new_binding, new_connection, the three   *)
(*                  teardown methods, and the signal sources emitting,     *)
(*                  being destroyed or losing their last reference;        *)
(*   SpecSingleton  two threads instantiating classes whose metaclass is   *)
(*                  Singleton or GSingleton.                               *)
(***************************************************************************)
EXTENDS Integers, Sequences, FiniteSets, TLC

VARIABLES
    rules,      \* Schema._rules: the rule tree (a Python dict)
    file,       \* the user data file at Schema._path
    data,       \* Schema._data
    pc,         \* "new" before __init__, "ready" after it, "failed" if it raised
    last,       \* the last call made on the Schema and what it did
    leafOnly,   \* history: every set call so far was addressed to a Leaf path
    vfn,        \* SpecValidator: the function applied last
    varg,       \* SpecValidator: its arguments
    vres,       \* SpecValidator: its result
    bindings,        \* the closures made by the successful bind calls, in order
    schemaHandlers,  \* ids of the handlers connected to the Schema's "changed"
    targetHandlers,  \* per target: ids of the handlers connected to notify::level
    props,           \* per target: the value of its property "level"
    nextHandler,     \* the id GObject gives to the next connected handler
    linker_bindings,     \* Linker._linker_bindings
    linker_connections,  \* Linker._linker_connections: object -> handler ids
    objHandlers,     \* per signal source: the handlers connected on it
    referenced,      \* the sources whose wrapper the application still references
    destroyed,       \* the widgets that have been destroyed
    bound,           \* the GObject.Binding objects that are bound
    registered,      \* history: handler ids connected through new_connection
    torn,            \* history: the ids of registered that a teardown covered
    handles,         \* history: the bindings and handler ids, in registration order
    instances,       \* per metaclass: its _instances dict, class -> instance
    calls,           \* per thread: the metaclass __call__ it is in, and where
    objects,         \* history: the class of every instance constructed, in order
    returned         \* history: the <<class, instance>> pairs the calls returned

bvars == <<bindings, schemaHandlers, targetHandlers, props, nextHandler>>
lvars == <<linker_bindings, linker_connections, objHandlers, referenced, destroyed,
           bound, registered, torn, handles>>
svars == <<instances, calls, objects, returned>>
vars == <<rules, file, data, pc, last, leafOnly, vfn, varg, vres, bvars, lvars, svars>>

(***************************************************************************)
(* Python values.  Numbers carry their runtime type; a float is held in    *)
(* tenths (PyFloat(5) is 0.5), True is 1 and False is 0 as in Python.      *)
(***************************************************************************)
PyInt(n) == [t |-> "int", v |-> n]
PyBool(b) == [t |-> "bool", v |-> IF b THEN 1 ELSE 0]
PyFloat(tenths) == [t |-> "float", v |-> tenths]
PyStr(s) == [t |-> "str", s |-> s]
PyNone == [t |-> "none"]
PyDict(f) == [t |-> "dict", kids |-> f]
PyList(q) == [t |-> "list", items |-> q]
EmptyDict == PyDict([k \in {} |-> PyNone])

IsNumber(x) == x.t \in {"int", "bool", "float"}

\* The numeric value of a number, in tenths.
Num(x) == IF x.t = "float" THEN x.v ELSE 10 * x.v

\* Python's ==: numbers compare by value across int, bool and float.
PyEq(a, b) == IF IsNumber(a) /\ IsNumber(b) THEN Num(a) = Num(b) ELSE a = b

\* Python's < on two numbers.
PyLt(a, b) == Num(a) < Num(b)

\* Python's `x in list`.
PyIn(x, lst) == \E i \in 1..Len(lst.items) : PyEq(x, lst.items[i])

\* dict.get(key, default)
DictGet(d, key, dflt) == IF key \in DOMAIN d.kids THEN d.kids[key] ELSE dflt

\* type(x), as the name of the class
TypeOf(x) == IF x.t = "none" THEN "NoneType" ELSE x.t

\* isinstance(x, cls): bool is a subclass of int.
IsInstance(x, cls) == TypeOf(x) = cls \/ (cls = "int" /\ x.t = "bool")

\* d[key] = val on a copy of d
DictPut(d, key, val) ==
    PyDict([k \in DOMAIN d.kids \cup {key} |-> IF k = key THEN val ELSE d.kids[k]])

(***************************************************************************)
(* json.dump / json.load: the document types of JSON.                      *)
(***************************************************************************)
RECURSIVE json_dump(_)
json_dump(x) ==
    CASE x.t = "none"  -> [j |-> "null"]
      [] x.t = "bool"  -> [j |-> IF x.v = 1 THEN "true" ELSE "false"]
      [] x.t = "int"   -> [j |-> "integer", v |-> x.v]
      [] x.t = "float" -> [j |-> "real", v |-> x.v]
      [] x.t = "str"   -> [j |-> "string", s |-> x.s]
      [] x.t = "list"  -> [j |-> "array",
                           items |-> [i \in 1..Len(x.items) |-> json_dump(x.items[i])]]
      [] x.t = "dict"  -> [j |-> "object",
                           kids |-> [k \in DOMAIN x.kids |-> json_dump(x.kids[k])]]

RECURSIVE json_load(_)
json_load(d) ==
    CASE d.j = "null"    -> PyNone
      [] d.j = "true"    -> PyBool(TRUE)
      [] d.j = "false"   -> PyBool(FALSE)
      [] d.j = "integer" -> PyInt(d.v)
      [] d.j = "real"    -> PyFloat(d.v)
      [] d.j = "string"  -> PyStr(d.s)
      [] d.j = "array"   -> PyList([i \in 1..Len(d.items) |-> json_load(d.items[i])])
      [] d.j = "object"  -> PyDict([k \in DOMAIN d.kids |-> json_load(d.kids[k])])

FileAbsent == [kind |-> "absent"]
FileMalformed == [kind |-> "malformed"]
FileJson(x) == [kind |-> "json", doc |-> json_dump(x)]

(***************************************************************************)
(* Leaf validation.                                                        *)
(***************************************************************************)
is_leaf_rule(rule) == rule.t = "dict" /\ "type" \in DOMAIN rule.kids

\* {"int": int, "str": str, "bool": bool, "float": float}.get(expected_type,
\* type(default_value))
PyTypeFor(expected_type, default_value) ==
    IF expected_type.t = "str" /\ expected_type.s \in {"int", "str", "bool", "float"}
    THEN expected_type.s
    ELSE TypeOf(default_value)

\* Mutant of validate_leaf: the bounds are taken as exclusive (<= and >=), so a
\* value on a bound is reset.
validate_leaf_exclusive_bounds(rule, value) ==
    LET expected_type == DictGet(rule, "type", PyNone)
        default_value == DictGet(rule, "default", PyNone)
        pytype == PyTypeFor(expected_type, default_value)
        c1 == ~IsInstance(value, pytype)
        v1 == IF c1 THEN default_value ELSE value
        numeric == expected_type \in {PyStr("int"), PyStr("float")}
        c2 == numeric /\ "min" \in DOMAIN rule.kids /\ ~PyLt(rule.kids["min"], v1)
        v2 == IF c2 THEN default_value ELSE v1
        c3 == numeric /\ "max" \in DOMAIN rule.kids /\ ~PyLt(v2, rule.kids["max"])
        v3 == IF c3 THEN default_value ELSE v2
        c4 == "enum" \in DOMAIN rule.kids /\ ~PyIn(v3, rule.kids["enum"])
        v4 == IF c4 THEN default_value ELSE v3
    IN  [value |-> v4, changed |-> c1 \/ c2 \/ c3 \/ c4]

validate_leaf(rule, value) ==
    LET expected_type == DictGet(rule, "type", PyNone)
        default_value == DictGet(rule, "default", PyNone)
        pytype == PyTypeFor(expected_type, default_value)
        c1 == ~IsInstance(value, pytype)
        v1 == IF c1 THEN default_value ELSE value
        numeric == expected_type \in {PyStr("int"), PyStr("float")}
        c2 == numeric /\ "min" \in DOMAIN rule.kids /\ PyLt(v1, rule.kids["min"])
        v2 == IF c2 THEN default_value ELSE v1
        c3 == numeric /\ "max" \in DOMAIN rule.kids /\ PyLt(rule.kids["max"], v2)
        v3 == IF c3 THEN default_value ELSE v2
        c4 == "enum" \in DOMAIN rule.kids /\ ~PyIn(v3, rule.kids["enum"])
        v4 == IF c4 THEN default_value ELSE v3
    IN  [value |-> v4, changed |-> c1 \/ c2 \/ c3 \/ c4]

(***************************************************************************)
(* Tree validation.                                                        *)
(***************************************************************************)
RECURSIVE walk(_, _)
\* Mutant of walk: a Group's sub-mapping is copied, not walked.
walk_copies_groups(rule_node, data_node) ==
    LET names == DOMAIN rule_node.kids
        rule(name) == rule_node.kids[name]
        leaf(name) == validate_leaf(rule(name),
                          DictGet(data_node, name, DictGet(rule(name), "default", PyNone)))
        child_data(name) == DictGet(data_node, name, EmptyDict)
        is_dict(name) == child_data(name).t = "dict"
        corrected == [name \in names |->
                         IF is_leaf_rule(rule(name)) THEN leaf(name).value
                         ELSE IF is_dict(name) THEN child_data(name) ELSE EmptyDict]
        changed ==
            \/ \E name \in names :
                   IF is_leaf_rule(rule(name)) THEN leaf(name).changed ELSE ~is_dict(name)
            \/ DOMAIN data_node.kids \ names # {}
    IN  [tree |-> PyDict(corrected), changed |-> changed]

walk(rule_node, data_node) ==
    LET names == DOMAIN rule_node.kids
        rule(name) == rule_node.kids[name]
        leaf(name) == validate_leaf(rule(name),
                          DictGet(data_node, name, DictGet(rule(name), "default", PyNone)))
        child_data(name) == DictGet(data_node, name, EmptyDict)
        is_dict(name) == child_data(name).t = "dict"
        sub(name) == walk(rule(name), IF is_dict(name) THEN child_data(name) ELSE EmptyDict)
        corrected == [name \in names |->
                         IF is_leaf_rule(rule(name)) THEN leaf(name).value
                                                     ELSE sub(name).tree]
        changed ==
            \/ \E name \in names :
                   IF is_leaf_rule(rule(name)) THEN leaf(name).changed
                                               ELSE ~is_dict(name) \/ sub(name).changed
            \/ DOMAIN data_node.kids \ names # {}
    IN  [tree |-> PyDict(corrected), changed |-> changed]

apply_validation_and_cleanup(user_data, rule_tree) ==
    walk(rule_tree, IF user_data.t = "dict" THEN user_data ELSE EmptyDict)

(***************************************************************************)
(* Dotted paths.  A dotted path is held as the sequence of its segments,   *)
(* the result of dotted_path.split("."), which is never empty: "" splits   *)
(* to the one segment "".                                                  *)
(***************************************************************************)
RECURSIVE descend(_, _)
descend(node, names) ==
    IF names = <<>> THEN [err |-> "none", node |-> node]
    ELSE IF Head(names) \notin DOMAIN node.kids
         THEN [err |-> "KeyError", node |-> PyNone]
         ELSE LET child == node.kids[Head(names)]
              IN  IF child.t # "dict"
                  THEN [err |-> "KeyError", node |-> PyNone]
                  ELSE descend(child, Tail(names))

resolve_parent_and_key(root, dotted_path) ==
    LET r == descend(root, SubSeq(dotted_path, 1, Len(dotted_path) - 1))
    IN  [err |-> r.err, node |-> r.node, key |-> dotted_path[Len(dotted_path)]]

\* rule_node[key] raises KeyError; rule.get on a rule that is no dict raises
\* AttributeError.
validate_single_value(rule_tree, dotted_path, value) ==
    LET r == resolve_parent_and_key(rule_tree, dotted_path)
    IN  IF r.err # "none" THEN [err |-> r.err, value |-> PyNone]
        ELSE IF r.key \notin DOMAIN r.node.kids THEN [err |-> "KeyError", value |-> PyNone]
        ELSE IF r.node.kids[r.key].t # "dict"
             THEN [err |-> "AttributeError", value |-> PyNone]
             ELSE [err |-> "none", value |-> validate_leaf(r.node.kids[r.key], value).value]

\* Schema.get: node[key] raises KeyError.
schema_get(tree, dotted_path) ==
    LET r == resolve_parent_and_key(tree, dotted_path)
    IN  IF r.err # "none" THEN [err |-> r.err, value |-> PyNone]
        ELSE IF r.key \notin DOMAIN r.node.kids THEN [err |-> "KeyError", value |-> PyNone]
        ELSE [err |-> "none", value |-> r.node.kids[r.key]]

\* node[key] = val, in the tree that holds node
RECURSIVE assign(_, _, _)
assign(tree, dotted_path, val) ==
    IF Len(dotted_path) = 1 THEN DictPut(tree, dotted_path[1], val)
    ELSE DictPut(tree, Head(dotted_path),
                 assign(tree.kids[Head(dotted_path)], Tail(dotted_path), val))

(***************************************************************************)
(* Persistence.                                                            *)
(***************************************************************************)
\* json.load of an existing file; {} when the file is absent or does not parse.
load_or_create_user_data(f) ==
    IF f.kind = "json" THEN json_load(f.doc) ELSE EmptyDict

\* _save: open(path, "w") and json.dump.  The write succeeds, or open raises
\* and leaves the file as it was, or the dump raises after open truncated it.
save(tree, f) ==
    {[ok |-> TRUE, file |-> FileJson(tree)],
     [ok |-> FALSE, file |-> f],
     [ok |-> FALSE, file |-> FileMalformed]}

\* Mutant of value_differs: no equality gate, every set stores.
value_differs_ungated(stored, valid_value) == TRUE

\* node.get(key) != valid_value
value_differs(stored, valid_value) == ~PyEq(stored, valid_value)

\* Mutant of store_save_emit: the save comes first, so a failed save leaves the
\* DataTree as it was.
store_save_emit_save_first(tree, f, dotted_path, valid_value) ==
    LET new == assign(tree, dotted_path, valid_value)
    IN  {[data |-> IF s.ok THEN new ELSE tree, file |-> s.file, ok |-> s.ok,
          emitted |-> IF s.ok THEN <<[path |-> dotted_path, value |-> valid_value]>>
                              ELSE <<>>] : s \in save(new, f)}

\* node[key] = valid_value; self._save(); self.emit("changed", ...): the data
\* is assigned before the save, the signal is emitted after it.
store_save_emit(tree, f, dotted_path, valid_value) ==
    LET new == assign(tree, dotted_path, valid_value)
    IN  {[data |-> new, file |-> s.file, ok |-> s.ok,
          emitted |-> IF s.ok THEN <<[path |-> dotted_path, value |-> valid_value]>>
                              ELSE <<>>] : s \in save(new, f)}

(***************************************************************************)
(* Rule trees and bounded inputs.                                          *)
(***************************************************************************)
\* Candidate integers are the multiples of 50 from -50 to 50 * MaxMult.
MaxMult == 3

VolumeRule ==
    PyDict([type |-> PyStr("int"), default |-> PyInt(50),
            min |-> PyInt(0), max |-> PyInt(100)])
ThemeRule ==
    PyDict([type |-> PyStr("string"), default |-> PyStr("light"),
            enum |-> PyList(<<PyStr("light"), PyStr("dark")>>)])
FloorRule == PyDict([type |-> PyStr("int"), default |-> PyInt(0), min |-> PyInt(0)])
CeilRule == PyDict([type |-> PyStr("int"), default |-> PyInt(0), max |-> PyInt(50)])
StepRule ==
    PyDict([type |-> PyStr("int"), default |-> PyInt(50),
            enum |-> PyList(<<PyInt(0), PyInt(50)>>)])
ScaleRule ==
    PyDict([type |-> PyStr("float"), default |-> PyFloat(10),
            min |-> PyFloat(5), max |-> PyFloat(20)])
MutedRule == PyDict([type |-> PyStr("bool"), default |-> PyBool(FALSE)])
NameRule == PyDict([type |-> PyStr("str"), default |-> PyStr("light")])
\* A rule whose default breaks its own bounds.
BadDefaultRule ==
    PyDict([type |-> PyStr("int"), default |-> PyInt(150),
            min |-> PyInt(0), max |-> PyInt(100)])

LeafRules ==
    {VolumeRule, ThemeRule, FloorRule, CeilRule, StepRule, ScaleRule, MutedRule,
     NameRule, BadDefaultRule}

\* {volume: int 0..100 default 50}
VolumeTree == PyDict([volume |-> VolumeRule])
\* {volume: ..., ui: {theme: string, one of light and dark}}
NestedTree == PyDict([volume |-> VolumeRule, ui |-> PyDict([theme |-> ThemeRule])])
\* {ui: {theme: ..., window: {scale: float, muted: bool}}, volume: int >= 0}
DeepTree ==
    PyDict([ui |-> PyDict([theme |-> ThemeRule,
                           window |-> PyDict([scale |-> ScaleRule, muted |-> MutedRule])]),
            volume |-> FloorRule])
BadDefaultTree == PyDict([volume |-> BadDefaultRule])

RuleTrees == {VolumeTree, NestedTree, DeepTree, BadDefaultTree}
SchemaRuleTrees == {VolumeTree, NestedTree}

IntCandidates == {PyInt(50 * k) : k \in -1..MaxMult}
Candidates ==
    IntCandidates
    \cup {PyBool(TRUE), PyBool(FALSE), PyFloat(5), PyFloat(10), PyFloat(30), PyFloat(500),
          PyStr("light"), PyStr("dark"), PyStr("neon"), PyNone, EmptyDict,
          PyList(<<PyInt(50)>>)}

\* The values given to set: in range, out of range (the largest candidate), a
\* bool, a valid and an invalid string, None.
SetValues ==
    {PyInt(0), PyInt(50), PyInt(50 * MaxMult), PyBool(TRUE), PyStr("dark"), PyStr("neon"),
     PyNone}

\* Leaf paths, a Group path, and paths absent from the rule tree: a missing
\* terminal segment, a missing intermediate segment, an intermediate segment
\* that is a Leaf.
DottedPaths ==
    {<<"volume">>, <<"ui">>, <<"ui", "theme">>, <<"ghost">>, <<"ui", "ghost">>,
     <<"ghost", "theme">>, <<"volume", "ghost">>, <<"volume", "type">>}

\* A data tree with the keys volume, ui and ghost, each absent or given.
Absent == [t |-> "absent"]
MkTree(vol, ui, ghost) ==
    LET given == [volume |-> vol, ui |-> ui, ghost |-> ghost]
    IN  PyDict([k \in {n \in {"volume", "ui", "ghost"} : given[n] # Absent} |-> given[k]])

UiOptions ==
    {Absent, PyInt(0), PyNone, EmptyDict,
     PyDict([theme |-> PyStr("light")]), PyDict([theme |-> PyStr("dark")]),
     PyDict([theme |-> PyStr("neon")]), PyDict([theme |-> EmptyDict]),
     PyDict([theme |-> PyStr("dark"), ghost |-> PyInt(50)]),
     PyDict([theme |-> PyStr("dark"),
             window |-> PyDict([scale |-> PyFloat(5), muted |-> PyBool(TRUE)])]),
     PyDict([window |-> PyDict([scale |-> PyFloat(30), muted |-> PyInt(0)])])}

DataTrees ==
    {MkTree(vol, ui, ghost) :
        vol \in {Absent, PyInt(50), PyInt(150), PyBool(TRUE), PyStr("light"), EmptyDict},
        ui \in UiOptions,
        ghost \in {Absent, PyBool(TRUE)}}
    \cup {PyList(<<PyInt(50)>>), PyInt(50), PyNone}

\* What the user data file may hold when the Schema is constructed.
FileDocs ==
    {MkTree(vol, ui, ghost) :
        vol \in {Absent, PyInt(50), PyInt(150), PyBool(TRUE)},
        ui \in {Absent, PyInt(0), PyDict([theme |-> PyStr("dark")])},
        ghost \in {Absent, PyBool(TRUE)}}
    \cup {PyList(<<PyInt(50)>>)}
FileStates == {FileAbsent, FileMalformed} \cup {FileJson(d) : d \in FileDocs}

(***************************************************************************)
(* The Schema object.                                                      *)
(***************************************************************************)
NoCall ==
    [op |-> "none", path |-> <<>>, value |-> PyNone, outcome |-> "ok",
     ret |-> PyNone, wrote |-> FALSE, emitted |-> <<>>]

\* The node of the rule tree a dotted path names, going down through Groups only.
RECURSIVE RuleAt(_, _)
RuleAt(rule_node, dotted_path) ==
    IF dotted_path = <<>> THEN rule_node
    ELSE IF is_leaf_rule(rule_node) \/ Head(dotted_path) \notin DOMAIN rule_node.kids
         THEN Absent
         ELSE RuleAt(rule_node.kids[Head(dotted_path)], Tail(dotted_path))

IsLeafPath(rule_tree, dotted_path) ==
    RuleAt(rule_tree, dotted_path) # Absent /\ is_leaf_rule(RuleAt(rule_tree, dotted_path))
IsGroupPath(rule_tree, dotted_path) ==
    RuleAt(rule_tree, dotted_path) # Absent /\ ~is_leaf_rule(RuleAt(rule_tree, dotted_path))

SchemaUnchanged == UNCHANGED <<vfn, varg, vres, bvars, lvars, svars>>

\* No bind call has been made and no target exists.
NoBindings ==
    /\ bindings = <<>>
    /\ schemaHandlers = <<>>
    /\ targetHandlers = <<>>
    /\ props = <<>>
    /\ nextHandler = 1

\* Linker.__init__: both registries empty; no signal source exists.
NoLinker ==
    /\ linker_bindings = <<>>
    /\ linker_connections = <<>>
    /\ objHandlers = <<>>
    /\ referenced = {}
    /\ destroyed = {}
    /\ bound = <<>>
    /\ registered = {}
    /\ torn = {}
    /\ handles = <<>>

\* No class with a singleton metaclass has been called and no thread runs.
NoSingleton ==
    /\ instances = [Singleton |-> [c \in {} |-> 0], GSingleton |-> [c \in {} |-> 0]]
    /\ calls = <<>>
    /\ objects = <<>>
    /\ returned = {}

\* Schema.__init__
Construct ==
    /\ pc = "new"
    /\ LET loaded == load_or_create_user_data(file)
           r == apply_validation_and_cleanup(loaded, rules)
       IN  /\ data' = r.tree
           /\ IF r.changed
              THEN \E s \in save(r.tree, file) :
                       /\ file' = s.file
                       /\ pc' = IF s.ok THEN "ready" ELSE "failed"
                       /\ last' = [NoCall EXCEPT !.op = "init", !.wrote = s.ok,
                                     !.outcome = IF s.ok THEN "ok" ELSE "OSError"]
              ELSE /\ file' = file
                   /\ pc' = "ready"
                   /\ last' = [NoCall EXCEPT !.op = "init"]
    /\ UNCHANGED <<rules, leafOnly>>
    /\ SchemaUnchanged

\* Schema.get
Get(dotted_path) ==
    /\ pc = "ready"
    /\ LET g == schema_get(data, dotted_path)
       IN  last' = [NoCall EXCEPT !.op = "get", !.path = dotted_path,
                      !.outcome = IF g.err = "none" THEN "ok" ELSE g.err,
                      !.ret = g.value]
    /\ UNCHANGED <<rules, file, data, pc, leafOnly>>
    /\ SchemaUnchanged

\* Schema.set
Set(dotted_path, value) ==
    /\ pc = "ready"
    /\ leafOnly' = (leafOnly /\ IsLeafPath(rules, dotted_path))
    /\ LET call == [NoCall EXCEPT !.op = "set", !.path = dotted_path, !.value = value]
           valid == validate_single_value(rules, dotted_path, value)
           r == resolve_parent_and_key(data, dotted_path)
       IN  IF valid.err # "none"
           THEN /\ last' = [call EXCEPT !.outcome = valid.err]
                /\ UNCHANGED <<data, file>>
           ELSE IF r.err # "none"
           THEN /\ last' = [call EXCEPT !.outcome = r.err]
                /\ UNCHANGED <<data, file>>
           ELSE IF value_differs(DictGet(r.node, r.key, PyNone), valid.value)
           THEN \E o \in store_save_emit(data, file, dotted_path, valid.value) :
                    /\ data' = o.data
                    /\ file' = o.file
                    /\ last' = [call EXCEPT !.outcome = IF o.ok THEN "ok" ELSE "OSError",
                                           !.wrote = o.ok, !.emitted = o.emitted]
           ELSE /\ last' = call
                /\ UNCHANGED <<data, file>>
    /\ UNCHANGED <<rules, pc>>
    /\ SchemaUnchanged

Init ==
    /\ rules \in SchemaRuleTrees
    /\ file \in FileStates
    /\ data = EmptyDict
    /\ pc = "new"
    /\ last = NoCall
    /\ leafOnly = TRUE
    /\ vfn = "none"
    /\ varg = PyNone
    /\ vres = PyNone
    /\ NoBindings
    /\ NoLinker
    /\ NoSingleton

Next ==
    \/ Construct
    \/ \E p \in DottedPaths : Get(p)
    \/ \E p \in DottedPaths, v \in SetValues : Set(p, v)

Spec == Init /\ [][Next]_vars

(***************************************************************************)
(* The validator's pure functions on bounded inputs.                       *)
(***************************************************************************)
ValidatorUnchanged ==
    UNCHANGED <<rules, file, data, pc, last, leafOnly, bvars, lvars, svars>>

\* Each function is applied from the idle state, to inputs of the bounded sets.
ApplyValidateLeaf ==
    /\ vfn = "none"
    /\ \E rule \in LeafRules, value \in Candidates :
           /\ vfn' = "leaf"
           /\ varg' = [rule |-> rule, value |-> value]
           /\ vres' = validate_leaf(rule, value)
    /\ ValidatorUnchanged

ApplyValidateTree ==
    /\ vfn = "none"
    /\ \E rule_tree \in RuleTrees, user_data \in DataTrees :
           /\ vfn' = "tree"
           /\ varg' = [rules |-> rule_tree, data |-> user_data]
           /\ vres' = apply_validation_and_cleanup(user_data, rule_tree)
    /\ ValidatorUnchanged

\* A second pass over the tree the first pass returned.
ApplyValidateTreeAgain ==
    /\ vfn = "tree"
    /\ vfn' = "tree2"
    /\ varg' = [rules |-> varg.rules, data |-> vres.tree,
                first |-> varg.data, first_changed |-> vres.changed]
    /\ vres' = apply_validation_and_cleanup(vres.tree, varg.rules)
    /\ ValidatorUnchanged

\* The call has returned: back to the idle state.
ValidatorReturn ==
    /\ vfn # "none"
    /\ vfn' = "none"
    /\ varg' = PyNone
    /\ vres' = PyNone
    /\ ValidatorUnchanged

InitValidator ==
    /\ rules = EmptyDict
    /\ file = FileAbsent
    /\ data = EmptyDict
    /\ pc = "off"
    /\ last = NoCall
    /\ leafOnly = TRUE
    /\ vfn = "none"
    /\ varg = PyNone
    /\ vres = PyNone
    /\ NoBindings
    /\ NoLinker
    /\ NoSingleton

NextValidator ==
    ApplyValidateLeaf \/ ApplyValidateTree \/ ApplyValidateTreeAgain \/ ValidatorReturn

SpecValidator == InitValidator /\ [][NextValidator]_vars

(***************************************************************************)
(* What the specification says of rules, leaves and trees.                 *)
(***************************************************************************)
IsScalar(x) == x.t \in {"int", "float", "bool", "str"}

\* The declared type of a Leaf, the four types taken as pairwise distinct.
DeclaredType(rule) ==
    IF rule.kids["type"].s = "string" THEN "str" ELSE rule.kids["type"].s

\* x has the Leaf's declared type, lies within the declared bounds and is a
\* member of the declared enum.
SatisfiesRule(rule, x) ==
    /\ x.t = DeclaredType(rule)
    /\ (DeclaredType(rule) \in {"int", "float"} /\ "min" \in DOMAIN rule.kids)
           => ~(Num(x) < Num(rule.kids["min"]))
    /\ (DeclaredType(rule) \in {"int", "float"} /\ "max" \in DOMAIN rule.kids)
           => ~(Num(x) > Num(rule.kids["max"]))
    /\ "enum" \in DOMAIN rule.kids
           => \E i \in 1..Len(rule.kids["enum"].items) : rule.kids["enum"].items[i] = x

\* validate_leaf as section 4.1 states it.
LeafContract(rule, candidate) ==
    IF SatisfiesRule(rule, candidate)
    THEN [value |-> candidate, changed |-> FALSE]
    ELSE [value |-> rule.kids["default"], changed |-> TRUE]

\* The dotted paths of the Leaves of a rule tree.
RECURSIVE LeafPaths(_)
LeafPaths(rule_node) ==
    UNION {IF is_leaf_rule(rule_node.kids[k])
           THEN {<<k>>}
           ELSE {<<k>> \o q : q \in LeafPaths(rule_node.kids[k])} : k \in DOMAIN rule_node.kids}

DefaultsValid(rule_tree) ==
    \A p \in LeafPaths(rule_tree) :
        SatisfiesRule(RuleAt(rule_tree, p), RuleAt(rule_tree, p).kids["default"])

\* tree has exactly the shape of rule_node: a mapping with rule_node's keys, a
\* scalar at every Leaf, a tree of the Group's shape at every Group.
RECURSIVE HasShape(_, _)
HasShape(tree, rule_node) ==
    /\ tree.t = "dict"
    /\ DOMAIN tree.kids = DOMAIN rule_node.kids
    /\ \A k \in DOMAIN rule_node.kids :
           IF is_leaf_rule(rule_node.kids[k])
           THEN IsScalar(tree.kids[k])
           ELSE HasShape(tree.kids[k], rule_node.kids[k])

(***************************************************************************)
(* Claims.                                                                 *)
(***************************************************************************)

\* C1: after construction and any sequence of set calls, with any values and
\* any dotted paths, the DataTree has exactly the shape of the RuleTree.
C1_DataTreeHasRuleShape == pc = "ready" => HasShape(data, rules)

\* C2: given defaults that satisfy their own constraints, after construction
\* and any sequence of set calls addressed to Leaf paths, every Leaf holds a
\* value of its declared type, within its bounds and in its enum.
C2_StoredValuesSatisfyRules ==
    (pc = "ready" /\ leafOnly /\ DefaultsValid(rules)) =>
        \A p \in LeafPaths(rules) :
            /\ schema_get(data, p).err = "none"
            /\ SatisfiesRule(RuleAt(rules, p), schema_get(data, p).value)

\* C3: validate_leaf returns (default, changed) when the candidate's type is
\* not the rule's, or it is outside the bounds, or it is not in the enum, and
\* (candidate, unchanged) in every other case.
C3_ValidateLeafContract ==
    vfn = "leaf" => vres = LeafContract(varg.rule, varg.value)

\* C4: for every rule tree and every data tree, the tree validate_tree returns
\* has exactly the rule tree's shape.
C4_ValidatedTreeHasRuleShape ==
    vfn \in {"tree", "tree2"} => HasShape(vres.tree, varg.rules)

\* C4 witness: a mapping at a Leaf, a scalar at a Group and an extra key were
\* repaired to the tree of defaults.
C4_Witness ==
    /\ vfn = "tree"
    /\ varg.rules = NestedTree
    /\ varg.data = MkTree(EmptyDict, PyInt(0), PyBool(TRUE))
    /\ vres.tree = PyDict([volume |-> PyInt(50), ui |-> PyDict([theme |-> PyStr("light")])])

\* C5: with defaults that satisfy their own constraints, a second validate_tree
\* over the result of the first returns the same tree and changed = false.
C5_ValidateTreeIdempotent ==
    (vfn = "tree2" /\ DefaultsValid(varg.rules)) =>
        (vres.tree = varg.data /\ ~vres.changed)

\* C5 witness: the first pass changed the tree, the second pass did not.
C5_Witness ==
    /\ vfn = "tree2"
    /\ varg.rules = DeepTree
    /\ varg.first_changed
    /\ varg.first # varg.data
    /\ ~vres.changed

\* C6: when construction completes, the user data file holds exactly the
\* corrected DataTree, whatever the file held before.
C6_ConstructionPersistsCorrectedTree ==
    (pc = "ready" /\ last.op = "init") => file = FileJson(data)

\* C7: a set(p, v) on a Leaf path that returns normally, followed by get(p),
\* yields v when v satisfies the Leaf's type, bounds and enum, and the Leaf's
\* default otherwise.
C7_SetThenGetYieldsValidated ==
    (pc = "ready" /\ last.op = "set" /\ last.outcome = "ok"
        /\ IsLeafPath(rules, last.path)) =>
        schema_get(data, last.path) =
            [err |-> "none",
             value |-> LeafContract(RuleAt(rules, last.path), last.value).value]

\* C8: a set(p, v) whose validated value equals the value stored at p leaves
\* the DataTree and the file as they were, writes nothing and emits nothing.
C8_SetOfStoredValueChangesNothing ==
    [][(/\ pc = "ready"
        /\ last'.op = "set"
        /\ validate_single_value(rules, last'.path, last'.value).err = "none"
        /\ schema_get(data, last'.path).err = "none"
        /\ PyEq(schema_get(data, last'.path).value,
                validate_single_value(rules, last'.path, last'.value).value))
       => (/\ data' = data
           /\ file' = file
           /\ last'.outcome = "ok"
           /\ ~last'.wrote
           /\ last'.emitted = <<>>)]_vars

\* C8 witness: set("volume", out of range) returned with the default stored:
\* no write, no event.
C8_Witness ==
    /\ last.op = "set"
    /\ last.path = <<"volume">>
    /\ last.value = PyInt(50 * MaxMult)
    /\ last.outcome = "ok"
    /\ ~last.wrote
    /\ last.emitted = <<>>
    /\ schema_get(data, <<"volume">>).value = PyInt(50)

\* C9: when the write of a set(p, v) on Leaf p fails, set raises the I/O error,
\* get(p) returns the new validated value, and no other Leaf is changed.
C9_FailedWriteStillUpdatesMemory ==
    [][(/\ pc = "ready"
        /\ last'.op = "set"
        /\ IsLeafPath(rules, last'.path)
        /\ schema_get(data, last'.path).err = "none"
        /\ ~PyEq(schema_get(data, last'.path).value,
                 validate_single_value(rules, last'.path, last'.value).value)
        /\ ~last'.wrote)
       => (/\ last'.outcome = "OSError"
           /\ schema_get(data', last'.path) =
                  validate_single_value(rules, last'.path, last'.value)
           /\ \A q \in LeafPaths(rules) \ {last'.path} :
                  schema_get(data', q) = schema_get(data, q))]_vars

\* C9 witness: set("volume", 0) raised the I/O error, the DataTree holds 0 and
\* the file does not.
C9_Witness ==
    /\ last.op = "set"
    /\ last.path = <<"volume">>
    /\ last.value = PyInt(0)
    /\ last.outcome = "OSError"
    /\ schema_get(data, <<"volume">>).value = PyInt(0)
    /\ file # FileJson(data)

\* C10: get and set with a dotted path absent from the rule tree fail with the
\* path-not-found error (KeyError) and leave the DataTree, the file and the
\* emitted events as they were.
C10_AbsentPathRaisesPathNotFound ==
    [][(/\ pc = "ready"
        /\ last'.op \in {"get", "set"}
        /\ RuleAt(rules, last'.path) = Absent)
       => (/\ last'.outcome = "KeyError"
           /\ data' = data
           /\ file' = file
           /\ last'.emitted = <<>>)]_vars

\* C24: the changed flag validate_tree returns is true exactly when the
\* corrected tree differs from the input tree: also when a missing Leaf or
\* Group was filled in, or the input was no mapping.
C24_ChangedIffTreeDiffers ==
    vfn \in {"tree", "tree2"} => (vres.changed <=> vres.tree # varg.data)

\* C25: a set on Leaf p delivers a ChangeEvent exactly when it changes the
\* value stored at p, and then exactly one, carrying the new stored value:
\* also when the write of the file fails.
C25_EventExactlyOnChange ==
    [][(/\ pc = "ready"
        /\ last'.op = "set"
        /\ IsLeafPath(rules, last'.path))
       => IF schema_get(data', last'.path) # schema_get(data, last'.path)
          THEN last'.emitted = <<[path |-> last'.path,
                                  value |-> schema_get(data', last'.path).value]>>
          ELSE last'.emitted = <<>>]_vars

(***************************************************************************)
(* Schema.bind.  A target is a GObject with one property, "level", which   *)
(* holds whatever value was last written to it.  Signals are dispatched    *)
(* synchronously: a handler runs inside the emit or set_property call that *)
(* triggers it, and an exception it raises is reported and dropped by the  *)
(* signal machinery instead of reaching the emitter.                       *)
(***************************************************************************)
\* The most bind calls that succeed in one run of SpecBind and SpecOwner, and
\* in one run of SpecPlain.
MaxBinds == 1
MaxPlainBinds == 2

Targets == {"w1", "w2"}
\* Mutant of find_property: every name is a property of the target.
find_property_any(target, prop) == TRUE

\* target.find_property(prop) is not None
find_property(target, prop) == prop = "level"
\* A run has one of the two targets: "w1" notifies on every write of its
\* property, "w2" (a property with explicit notification) only when the value
\* changes.
NotifiesAlways(target) == target = "w1"

\* transform_to / transform_from: None, or one of
\*   percent    lambda v: v / 100.0
\*   unpercent  lambda x: int(round(x * 100))
\*   plus50     lambda v: v + 50
\* A transform raises TypeError on a value that is not a number.  percent is
\* exact on the multiples of ten, the only integers the store holds here.
Transforms == {"None", "percent", "unpercent", "plus50"}
transform(f, x) ==
    IF f = "None" THEN [ok |-> TRUE, value |-> x]
    ELSE IF ~IsNumber(x) THEN [ok |-> FALSE, value |-> PyNone]
    ELSE IF f = "percent" THEN [ok |-> TRUE, value |-> PyFloat(Num(x) \div 100)]
    ELSE IF f = "unpercent" THEN [ok |-> TRUE, value |-> PyInt(Num(x) * 10)]
    ELSE [ok |-> TRUE,
          value |-> IF x.t = "float" THEN PyFloat(x.v + 500) ELSE PyInt(Num(x) \div 10 + 50)]

\* The binding whose closure is connected under handler id h.
SchemaClosure(h) == CHOOSE b \in 1..Len(bindings) : bindings[b].handler_schema = h
WidgetClosure(h) == CHOOSE b \in 1..Len(bindings) : bindings[b].handler_widget = h

\* The state a dispatch threads through its nested calls: the Schema's data
\* and file, the targets' properties, which bindings pushed to their target
\* (pushed) and which called store.set (setters), how many "changed" signals
\* were emitted (events), and whether the dispatch re-entered a call it is
\* still inside (loops), which recurses until the interpreter's stack is
\* exhausted.
Dispatch(tree, f, pr) ==
    [data |-> tree, file |-> f, props |-> pr, events |-> 0,
     pushed |-> {}, setters |-> {}, loops |-> FALSE]

RECURSIVE do_set(_, _, _, _)
RECURSIVE emit_changed(_, _, _, _, _)
RECURSIVE notify(_, _, _, _)

\* target.set_property("level", value), then the notify::level handlers.
set_property(st, target, value, frames) ==
    LET notifies == NotifiesAlways(target) \/ ~PyEq(st.props[target], value)
        st1 == [st EXCEPT !.props[target] = value]
    IN  IF notifies THEN notify(st1, targetHandlers[target], target, frames)
        ELSE st1

\* on_schema_changed of binding b, called with (changed_key, value).
on_schema_changed(st, b, changed_key, value, frames) ==
    IF changed_key # bindings[b].path THEN st
    ELSE LET v == transform(bindings[b].transform_to, value)
         IN  IF ~v.ok THEN st
             ELSE set_property([st EXCEPT !.pushed = @ \cup {b}],
                               bindings[b].target, v.value, frames)

\* on_widget_notify of binding b: an exception of set ends the handler only.
on_widget_notify(st, b, frames) ==
    LET w == transform(bindings[b].transform_from, st.props[bindings[b].target])
    IN  IF ~w.ok THEN st
        ELSE do_set([st EXCEPT !.setters = @ \cup {b}],
                    bindings[b].path, w.value, frames).st

\* self.emit("changed", dotted_path, valid_value): the handlers hs in the
\* order they were connected.
emit_changed(st, hs, dotted_path, value, frames) ==
    IF hs = <<>> \/ st.loops THEN st
    ELSE emit_changed(on_schema_changed(st, SchemaClosure(Head(hs)), dotted_path,
                                        value, frames),
                      Tail(hs), dotted_path, value, frames)

\* The notify::level handlers hs of target, in the order they were connected.
notify(st, hs, target, frames) ==
    IF hs = <<>> \/ st.loops THEN st
    ELSE notify(on_widget_notify(st, WidgetClosure(Head(hs)), frames),
                Tail(hs), target, frames)

\* Schema.set with its dispatch.  In SpecBind every write of the file
\* succeeds (Spec explores the failing ones).  frames holds the set calls this
\* one is nested in, each with the state it started from: the same call from
\* the same state recurses forever.
do_set(st, dotted_path, value, frames) ==
    LET frame == <<st.data, st.props, dotted_path, value>>
        valid == validate_single_value(rules, dotted_path, value)
        r == resolve_parent_and_key(st.data, dotted_path)
        o == CHOOSE x \in store_save_emit(st.data, st.file, dotted_path, valid.value) :
                 x.ok
        st1 == [st EXCEPT !.data = o.data, !.file = o.file,
                          !.events = @ + Len(o.emitted)]
    IN  IF frame \in frames
        THEN [st |-> [st EXCEPT !.loops = TRUE], err |-> "RecursionError"]
        ELSE IF valid.err # "none" THEN [st |-> st, err |-> valid.err]
        ELSE IF r.err # "none" THEN [st |-> st, err |-> r.err]
        ELSE IF ~value_differs(DictGet(r.node, r.key, PyNone), valid.value)
        THEN [st |-> st, err |-> "none"]
        ELSE LET st2 == emit_changed(st1, schemaHandlers, dotted_path, valid.value,
                                     frames \cup {frame})
             IN  [st |-> st2, err |-> IF st2.loops THEN "RecursionError" ELSE "none"]

\* The options of a bind call: every combination of the three flags without
\* transforms, and each pair of transforms with the flags at their defaults.
Flags == [bidirectional : BOOLEAN, sync_create : BOOLEAN, preserve_cursor : BOOLEAN]
WithTransforms(fl, to, from) ==
    [bidirectional |-> fl.bidirectional, sync_create |-> fl.sync_create,
     preserve_cursor |-> fl.preserve_cursor, transform_to |-> to, transform_from |-> from]
DefaultFlags == [bidirectional |-> TRUE, sync_create |-> TRUE, preserve_cursor |-> FALSE]
BindOptions ==
    {WithTransforms(fl, "None", "None") : fl \in Flags}
    \cup {WithTransforms(DefaultFlags, "percent", "None"),
          WithTransforms(DefaultFlags, "percent", "unpercent"),
          WithTransforms(DefaultFlags, "plus50", "None")}

BindPaths == {<<"volume">>, <<"ghost">>}
BindProps == {"level", "nope"}
\* Values the application sets in the store, and values it writes to a target.
BindSetValues == {PyInt(80), PyInt(50 * MaxMult)}
EditValues == {PyInt(80), PyFloat(3)}

\* The last call in SpecBind.  handle is the index of the Binding returned by
\* bind, or the one unbind was called on (0: bind returned None or raised);
\* outcome is "ok" for a call that returned, else the exception it raised;
\* warned tells that a disconnect named a handler id that was not connected.
NoBindCall ==
    [op |-> "none", path |-> <<>>, prop |-> "none", value |-> PyNone,
     outcome |-> "ok", handle |-> 0, events |-> 0, pushed |-> {},
     setters |-> {}, loops |-> FALSE, warned |-> FALSE]

\* The outcome of a finished dispatch becomes the state; a dispatch that
\* recursed without end leaves the process crashed.
AfterDispatch(st) ==
    /\ data' = st.data
    /\ file' = st.file
    /\ props' = st.props
    /\ pc' = IF st.loops THEN "crashed" ELSE pc

BindUnchanged == UNCHANGED <<rules, leafOnly, vfn, varg, vres, lvars, svars>>

\* Mutant of returns_binding: bind never returns a Binding.
returns_binding_never(o) == FALSE

\* if not preserve_cursor: ... return Binding(); None is returned otherwise.
returns_binding(o) == ~o.preserve_cursor

\* Schema.bind(dotted_path, target, prop, **options), as long as fewer than
\* limit bind calls have succeeded.
BindUpTo(limit, dotted_path, target, prop, o) ==
    /\ pc = "ready"
    /\ target \in DOMAIN props
    /\ LET call == [NoBindCall EXCEPT !.op = "bind", !.path = dotted_path,
                                      !.prop = prop]
           g == schema_get(data, dotted_path)
           v == transform(o.transform_to, g.value)
           start == Dispatch(data, file, props)
           handler_schema == IF o.preserve_cursor THEN 0 ELSE nextHandler
           after_schema == IF o.preserve_cursor THEN nextHandler ELSE nextHandler + 1
           handler_widget == IF o.bidirectional THEN after_schema ELSE 0
           closure == [path |-> dotted_path, target |-> target,
                       transform_to |-> o.transform_to,
                       transform_from |-> o.transform_from,
                       handler_schema |-> handler_schema,
                       handler_widget |-> handler_widget,
                       preserve_cursor |-> o.preserve_cursor,
                       handle |-> returns_binding(o), unbound |-> FALSE]
           connected(st) ==
               /\ Len(bindings) < limit
               /\ AfterDispatch(st)
               /\ IF st.loops
                  THEN /\ UNCHANGED <<bindings, schemaHandlers, targetHandlers, nextHandler>>
                       /\ last' = [call EXCEPT !.outcome = "RecursionError", !.loops = TRUE,
                                               !.events = st.events,
                                               !.pushed = st.pushed, !.setters = st.setters]
                  ELSE /\ bindings' = Append(bindings, closure)
                       /\ schemaHandlers' = IF o.preserve_cursor THEN schemaHandlers
                                            ELSE Append(schemaHandlers, handler_schema)
                       /\ targetHandlers' =
                              IF o.bidirectional
                              THEN [targetHandlers EXCEPT ![target] = Append(@, handler_widget)]
                              ELSE targetHandlers
                       /\ nextHandler' = IF o.bidirectional THEN after_schema + 1
                                         ELSE after_schema
                       /\ last' = [call EXCEPT !.handle = IF returns_binding(o)
                                                          THEN Len(bindings) + 1 ELSE 0,
                                               !.events = st.events,
                                               !.pushed = st.pushed, !.setters = st.setters]
           failed(err) ==
               /\ last' = [call EXCEPT !.outcome = err]
               /\ UNCHANGED <<data, file, pc, bvars>>
       IN  IF ~find_property(target, prop) THEN failed("AttributeError")
           ELSE IF ~o.sync_create THEN connected(start)
           ELSE IF g.err # "none" THEN failed(g.err)
           ELSE IF ~v.ok THEN failed("TypeError")
           ELSE connected(set_property(start, target, v.value, {}))
    /\ BindUnchanged

Bind(dotted_path, target, prop, o) == BindUpTo(MaxBinds, dotted_path, target, prop, o)

\* Mutant of disconnect: the handler stays connected.
disconnect_nothing(hs, h) == hs

\* Mutant of disconnect: every handler of the object is disconnected.
disconnect_every(hs, h) == <<>>

\* GObject.Object.disconnect(h) on a handler list: an id that is not connected
\* is reported with a warning and nothing is disconnected.
disconnect(hs, h) == SelectSeq(hs, LAMBDA x : x # h)
IsConnected(hs, h) == \E i \in 1..Len(hs) : hs[i] = h

\* The body of Binding.unbind of the b-th binding, on the handlers hs of the
\* store (schema) and of the targets (target).
unbind(hs, b) ==
    [schema |-> disconnect(hs.schema, bindings[b].handler_schema),
     target |-> IF bindings[b].handler_widget # 0
                THEN [hs.target EXCEPT ![bindings[b].target] =
                         disconnect(@, bindings[b].handler_widget)]
                ELSE hs.target]

\* Binding.unbind() on the Binding returned by the b-th successful bind.
Unbind(b) ==
    /\ pc = "ready"
    /\ b \in 1..Len(bindings)
    /\ bindings[b].handle
    /\ LET c == bindings[b]
           after == unbind([schema |-> schemaHandlers, target |-> targetHandlers], b)
       IN  /\ bindings' = [bindings EXCEPT ![b].unbound = TRUE]
           /\ schemaHandlers' = after.schema
           /\ targetHandlers' = after.target
           /\ last' = [NoBindCall EXCEPT
                         !.op = "unbind", !.handle = b,
                         !.warned = \/ ~IsConnected(schemaHandlers, c.handler_schema)
                                    \/ /\ c.handler_widget # 0
                                       /\ ~IsConnected(targetHandlers[c.target],
                                                       c.handler_widget)]
    /\ UNCHANGED <<data, file, pc, props, nextHandler>>
    /\ BindUnchanged

\* Schema.set called by the application, with everything it dispatches.
StoreSet(dotted_path, value) ==
    /\ pc = "ready"
    /\ LET start == Dispatch(data, file, props)
           r == do_set(start, dotted_path, value, {})
       IN  /\ AfterDispatch(r.st)
           /\ last' = [NoBindCall EXCEPT
                         !.op = "set", !.path = dotted_path, !.value = value,
                         !.outcome = IF r.err = "none" THEN "ok" ELSE r.err,
                         !.events = r.st.events,
                         !.pushed = r.st.pushed,
                         !.setters = r.st.setters, !.loops = r.st.loops]
    /\ UNCHANGED <<bindings, schemaHandlers, targetHandlers, nextHandler>>
    /\ BindUnchanged

\* The application (or the user, through the widget) writes a target's
\* property: target.set_property("level", value).
TargetEdit(target, value) ==
    /\ pc = "ready"
    /\ target \in DOMAIN props
    /\ LET start == Dispatch(data, file, props)
           st == set_property(start, target, value, {})
       IN  /\ AfterDispatch(st)
           /\ last' = [NoBindCall EXCEPT
                         !.op = "edit", !.value = value,
                         !.outcome = IF st.loops THEN "RecursionError" ELSE "ok",
                         !.events = st.events,
                         !.pushed = st.pushed, !.setters = st.setters,
                         !.loops = st.loops]
    /\ UNCHANGED <<bindings, schemaHandlers, targetHandlers, nextHandler>>
    /\ BindUnchanged

\* A Schema constructed over {"volume": 50}, and a target nothing is bound
\* to yet.
InitBind ==
    /\ rules = VolumeTree
    /\ data = PyDict([volume |-> PyInt(50)])
    /\ file = FileJson(PyDict([volume |-> PyInt(50)]))
    /\ pc = "ready"
    /\ last = NoBindCall
    /\ leafOnly = TRUE
    /\ vfn = "none"
    /\ varg = PyNone
    /\ vres = PyNone
    /\ bindings = <<>>
    /\ schemaHandlers = <<>>
    /\ \E w \in Targets :
           /\ targetHandlers = [t \in {w} |-> <<>>]
           /\ props = [t \in {w} |-> PyFloat(0)]
    /\ nextHandler = 1
    /\ NoLinker
    /\ NoSingleton

NextBind ==
    \/ \E p \in BindPaths, t \in Targets, prop \in BindProps, o \in BindOptions :
           Bind(p, t, prop, o)
    \/ \E b \in 1..MaxBinds : Unbind(b)
    \/ \E p \in BindPaths, v \in BindSetValues : StoreSet(p, v)
    \/ \E t \in Targets, v \in EditValues : TargetEdit(t, v)

SpecBind == InitBind /\ [][NextBind]_vars

\* Several bindings of the path volume to the target, without transforms.
PlainOptions == {WithTransforms(fl, "None", "None") : fl \in Flags}
BindPlain(target, o) == BindUpTo(MaxPlainBinds, <<"volume">>, target, "level", o)

NextPlain ==
    \/ \E t \in Targets, o \in PlainOptions : BindPlain(t, o)
    \/ \E b \in 1..MaxPlainBinds : Unbind(b)
    \/ \E v \in BindSetValues : StoreSet(<<"volume">>, v)
    \/ \E t \in Targets, v \in EditValues : TargetEdit(t, v)

SpecPlain == InitBind /\ [][NextPlain]_vars

(***************************************************************************)
(* What the specification says of bind and of the Binding handle.          *)
(***************************************************************************)
\* Binding b's store-to-target and target-to-store subscriptions.
SchemaConnected(b) == IsConnected(schemaHandlers, bindings[b].handler_schema)
WidgetConnected(b) ==
    IsConnected(targetHandlers[bindings[b].target], bindings[b].handler_widget)

\* C11: bind with a dotted path that is absent from the rule tree fails: with
\* an existing property it raises the path-not-found error (KeyError), and no
\* subscription for an absent path is ever connected on the store or the target.
C11_BindOnAbsentPathFails ==
    /\ (last.op = "bind" /\ RuleAt(rules, last.path) = Absent /\ last.prop = "level")
           => last.outcome = "KeyError"
    /\ \A b \in 1..Len(bindings) :
           RuleAt(rules, bindings[b].path) = Absent
               => ~SchemaConnected(b) /\ ~WidgetConnected(b)

\* C12: bind with a property name the target does not have raises the
\* unknown-property error (AttributeError) and changes nothing: no property
\* written, no subscription or closure added, DataTree and file as before.
C12_UnknownPropertyFailsBeforeAnyEffect ==
    [][(last'.op = "bind" /\ last'.prop # "level")
           => /\ last'.outcome = "AttributeError"
              /\ UNCHANGED <<data, file, pc, bvars>>]_vars

\* C12 witness: such a bind has raised while a binding made earlier is still
\* connected on the store and on the target.
C12_Witness ==
    /\ last.op = "bind" /\ last.prop = "nope" /\ last.outcome = "AttributeError"
    /\ \E b \in 1..Len(bindings) : SchemaConnected(b) /\ WidgetConnected(b)

\* A binding made with all options but transform_to at their defaults, still
\* connected both ways.
DefaultBinding(b) ==
    /\ bindings[b].handle /\ bindings[b].handler_widget # 0
    /\ bindings[b].transform_from = "None"

\* C13: with a single binding bind(p, target, prop, transform_to = f), all
\* other options at their defaults, when set(p, v) with a valid v different
\* from the stored value returns, the target's property equals f(v).
C13_TargetHoldsTransformedValue ==
    [][(/\ last'.op = "set" /\ last'.outcome = "ok"
        /\ Len(bindings) = 1 /\ DefaultBinding(1) /\ ~bindings[1].unbound
        /\ bindings[1].path = last'.path
        /\ validate_single_value(rules, last'.path, last'.value)
               = [err |-> "none", value |-> last'.value]
        /\ ~PyEq(schema_get(data, last'.path).value, last'.value))
           => props'[bindings[1].target]
                  = transform(bindings[1].transform_to, last'.value).value]_vars

\* C14: after unbind() on a Binding, no later dispatch (of a set, an edit or a
\* bind) writes the target through that binding.
C14_NoPushAfterUnbind ==
    \A b \in last.pushed : ~bindings[b].unbound

\* C14 witness: a set changed the value at the path of an unbound binding, and
\* the event was emitted.
C14_Witness ==
    /\ last.op = "set" /\ last.events > 0
    /\ \E b \in 1..Len(bindings) :
           /\ bindings[b].unbound /\ bindings[b].path = last.path
           /\ props[bindings[b].target]
                  # transform(bindings[b].transform_to, schema_get(data, last.path).value).value

\* C16: unbind() is idempotent.  Every call returns without an error; a call
\* on a Binding that was unbound before leaves the subscriptions of the store
\* and of the target, the DataTree, the file and the targets as they were; and
\* no call changes whether another binding's subscriptions are connected.
C16_UnbindIdempotent ==
    [][last'.op = "unbind"
           => /\ last'.outcome = "ok"
              /\ bindings[last'.handle].unbound
                     => UNCHANGED <<schemaHandlers, targetHandlers, data, file, props>>
              /\ \A c \in (1..Len(bindings)) \ {last'.handle} :
                     /\ SchemaConnected(c)' = SchemaConnected(c)
                     /\ WidgetConnected(c)' = WidgetConnected(c)]_vars

\* C16 witness: a repeated unbind found its handlers already disconnected
\* while another binding is connected on the store and on the target.
C16_Witness ==
    /\ last.op = "unbind" /\ last.warned
    /\ \E c \in (1..Len(bindings)) \ {last.handle} :
           SchemaConnected(c) /\ WidgetConnected(c)

\* C17 as stated: every successful bind returns a Binding, and after its
\* unbind() neither subscription made by that bind is connected.
C17_EveryBindReturnsBinding ==
    /\ (last.op = "bind" /\ last.outcome = "ok") => last.handle # 0
    /\ \A b \in 1..Len(bindings) :
           /\ bindings[b].handle
           /\ bindings[b].unbound => ~SchemaConnected(b) /\ ~WidgetConnected(b)

\* C17 amended: every successful bind without preserve_cursor returns a
\* Binding, and after its unbind() neither subscription made by that bind is
\* connected; a bind with preserve_cursor returns None.
C17_BindingUnlessPreserveCursor ==
    /\ (last.op = "bind" /\ last.outcome = "ok")
           => (last.handle # 0 <=> ~bindings[Len(bindings)].preserve_cursor)
    /\ \A b \in 1..Len(bindings) :
           /\ bindings[b].handle <=> ~bindings[b].preserve_cursor
           /\ bindings[b].unbound => ~SchemaConnected(b) /\ ~WidgetConnected(b)

\* C17 witness: a bidirectional binding has been unbound through its handle.
C17_Witness ==
    \E b \in 1..Len(bindings) :
        /\ bindings[b].unbound /\ bindings[b].handler_widget # 0
        /\ ~bindings[b].preserve_cursor

\* C18: whatever the transforms of the bindings, the dispatch a set, an edit
\* or a bind starts is finite: it never re-enters a set call it is still
\* inside from the state that call started in.
C18_DispatchTerminates ==
    ~last.loops /\ pc # "crashed"

\* The target of binding b holds transform_to(get(p)), or b has no live
\* store-to-target subscription.
InSync(b) ==
    (/\ SchemaConnected(b)
     /\ schema_get(data, bindings[b].path).err = "none")
        => LET pushed == transform(bindings[b].transform_to,
                                   schema_get(data, bindings[b].path).value)
           IN  pushed.ok /\ props[bindings[b].target] = pushed.value

\* C26: binding consistency.  When a store set or an edit of a target's
\* property, to a valid or an invalid value, has completed, every target bound
\* to a path p through a binding whose store-to-target subscription is live
\* holds transform_to(get(p)), with one or with several bindings on the path.
\* Stated for the bindings that are bidirectional and whose targets held that
\* value when the operation began.
C26_BindingConsistency ==
    [][(/\ last'.op \in {"set", "edit"}
        /\ pc' = "ready"
        /\ \A b \in 1..Len(bindings) : WidgetConnected(b) /\ InSync(b))
       => \A b \in 1..Len(bindings) : InSync(b)']_vars

(***************************************************************************)
(* dgutils.linker.Linker.  The signal sources are a Gtk.Widget ("button")  *)
(* and a plain GObject.Object ("model").  _linker_connections is a         *)
(* WeakKeyDictionary: an entry lives only as long as the application holds *)
(* a reference to the key's wrapper, while the source itself, and the      *)
(* handlers connected on it, live as long as the toolkit holds it.  The    *)
(* dictionary is held as the sequence of its entries, in insertion order.  *)
(***************************************************************************)
\* The most new_binding and new_connection calls in one run.
MaxRegistrations == 3

LinkerObjects == {"button", "model"}
\* isinstance(gobject, Gtk.Widget)
IsWidget(gobject) == gobject = "button"

\* The last call on the Linker or event of a source: the bindings unbind() was
\* called on and the handler ids disconnected, in order; the registered
\* callbacks an emission invoked; again tells that the call before was the
\* same teardown method.
NoLinkerCall ==
    [op |-> "none", unbinds |-> <<>>, disconnects |-> <<>>, invoked |-> {},
     again |-> FALSE]

Range(q) == {q[i] : i \in 1..Len(q)}
\* gobject in self._linker_connections
HasEntry(entries, gobject) == \E i \in 1..Len(entries) : entries[i].gobject = gobject
\* The entries without the one of gobject: pop(gobject, []), or the entry of a
\* key that is no longer referenced.
WithoutEntry(entries, gobject) == SelectSeq(entries, LAMBDA e : e.gobject # gobject)
\* gobject.handler_is_connected(handler_id)
handler_is_connected(handlers, gobject, handler_id) ==
    \E i \in 1..Len(handlers[gobject]) : handlers[gobject][i].id = handler_id

\* Mutant of cleared: the registry keeps its entries.
not_cleared(registry) == registry

\* self._linker_bindings.clear() / self._linker_connections.clear()
cleared(registry) == <<>>

\* The handler ids that the loop of disconnect_all (or of on_gobject_destroyed,
\* for one entry) disconnects, in order: those of the entries that are still
\* connected.
RECURSIVE DisconnectOrder(_, _)
DisconnectOrder(entries, handlers) ==
    IF entries = <<>> THEN <<>>
    ELSE SelectSeq(Head(entries).handlers,
                   LAMBDA h : handler_is_connected(handlers, Head(entries).gobject, h))
         \o DisconnectOrder(Tail(entries), handlers)

\* The handlers left connected once the ids in gone are disconnected.
Disconnected(handlers, gone) ==
    [o \in DOMAIN handlers |-> SelectSeq(handlers[o], LAMBDA h : h.id \notin Range(gone))]

Registrations == Len(bound) + Cardinality(registered)

LinkerUnchanged ==
    UNCHANGED <<rules, file, data, pc, leafOnly, vfn, varg, vres,
                bindings, schemaHandlers, targetHandlers, props, svars>>

\* Linker.new_binding(binding), binding being a fresh bound GObject.Binding.
NewBinding ==
    /\ Registrations < MaxRegistrations
    /\ bound' = Append(bound, TRUE)
    /\ linker_bindings' = Append(linker_bindings, Len(bound) + 1)
    /\ handles' = Append(handles, [kind |-> "binding", id |-> Len(bound) + 1])
    /\ last' = [NoLinkerCall EXCEPT !.op = "new_binding"]
    /\ UNCHANGED <<linker_connections, objHandlers, referenced, destroyed, registered,
                   torn, nextHandler>>
    /\ LinkerUnchanged

\* Linker.new_connection(gobject, signal, callback)
NewConnection(gobject) ==
    /\ Registrations < MaxRegistrations
    /\ gobject \in referenced
    /\ gobject \notin destroyed
    /\ LET first == ~HasEntry(linker_connections, gobject)
           hooked == first /\ IsWidget(gobject)
           handler == IF hooked THEN nextHandler + 1 ELSE nextHandler
           entries == IF first
                      THEN Append(linker_connections, [gobject |-> gobject, handlers |-> <<>>])
                      ELSE linker_connections
       IN  /\ objHandlers' =
                  [objHandlers EXCEPT ![gobject] =
                      (IF hooked THEN Append(@, [id |-> nextHandler, hook |-> TRUE]) ELSE @)
                      \o <<[id |-> handler, hook |-> FALSE]>>]
           /\ linker_connections' =
                  [i \in 1..Len(entries) |->
                      IF entries[i].gobject = gobject
                      THEN [entries[i] EXCEPT !.handlers = Append(@, handler)]
                      ELSE entries[i]]
           /\ registered' = registered \cup {handler}
           /\ handles' = Append(handles, [kind |-> "connection", id |-> handler])
           /\ nextHandler' = handler + 1
    /\ last' = [NoLinkerCall EXCEPT !.op = "new_connection"]
    /\ UNCHANGED <<linker_bindings, referenced, destroyed, bound, torn>>
    /\ LinkerUnchanged

\* Linker.unbind_all
UnbindAll ==
    /\ bound' = [b \in 1..Len(bound) |-> bound[b] /\ b \notin Range(linker_bindings)]
    /\ linker_bindings' = cleared(linker_bindings)
    /\ last' = [NoLinkerCall EXCEPT !.op = "unbind_all", !.unbinds = linker_bindings,
                                    !.again = (last.op = "unbind_all")]
    /\ UNCHANGED <<linker_connections, objHandlers, referenced, destroyed, registered,
                   torn, handles, nextHandler>>
    /\ LinkerUnchanged

\* Linker.disconnect_all
DisconnectAll ==
    /\ LET gone == DisconnectOrder(linker_connections, objHandlers)
       IN  /\ objHandlers' = Disconnected(objHandlers, gone)
           /\ last' = [NoLinkerCall EXCEPT !.op = "disconnect_all", !.disconnects = gone,
                                           !.again = (last.op = "disconnect_all")]
    /\ linker_connections' = cleared(linker_connections)
    /\ torn' = registered
    /\ UNCHANGED <<linker_bindings, referenced, destroyed, bound, registered, handles,
                   nextHandler>>
    /\ LinkerUnchanged

\* Linker.link_teardown: unbind_all, then disconnect_all.
LinkTeardown ==
    /\ bound' = [b \in 1..Len(bound) |-> bound[b] /\ b \notin Range(linker_bindings)]
    /\ linker_bindings' = cleared(linker_bindings)
    /\ LET gone == DisconnectOrder(linker_connections, objHandlers)
       IN  /\ objHandlers' = Disconnected(objHandlers, gone)
           /\ last' = [NoLinkerCall EXCEPT !.op = "link_teardown",
                                           !.unbinds = linker_bindings,
                                           !.disconnects = gone,
                                           !.again = (last.op = "link_teardown")]
    /\ linker_connections' = cleared(linker_connections)
    /\ torn' = registered
    /\ UNCHANGED <<referenced, destroyed, registered, handles, nextHandler>>
    /\ LinkerUnchanged

\* A source emits the signal the callbacks were connected to.
Emit(gobject) ==
    /\ gobject \notin destroyed
    /\ last' = [NoLinkerCall EXCEPT
                  !.op = "emit",
                  !.invoked = {objHandlers[gobject][i].id : i \in
                                  {j \in 1..Len(objHandlers[gobject]) :
                                      ~objHandlers[gobject][j].hook}}]
    /\ UNCHANGED <<lvars, nextHandler>>
    /\ LinkerUnchanged

\* The widget is destroyed: "destroy" runs every on_gobject_destroyed hook
\* connected on it (the first pops the entry and disconnects its handlers),
\* then the disposal drops every handler of the widget.
DestroyWidget(gobject) ==
    /\ IsWidget(gobject)
    /\ gobject \notin destroyed
    /\ LET hooks == \E i \in 1..Len(objHandlers[gobject]) : objHandlers[gobject][i].hook
           entry == SelectSeq(linker_connections, LAMBDA e : e.gobject = gobject)
           gone == IF hooks THEN DisconnectOrder(entry, objHandlers) ELSE <<>>
       IN  /\ linker_connections' = IF hooks THEN WithoutEntry(linker_connections, gobject)
                                    ELSE linker_connections
           /\ last' = [NoLinkerCall EXCEPT !.op = "destroy", !.disconnects = gone]
    /\ objHandlers' = [objHandlers EXCEPT ![gobject] = <<>>]
    /\ destroyed' = destroyed \cup {gobject}
    /\ UNCHANGED <<linker_bindings, referenced, bound, registered, torn, handles,
                   nextHandler>>
    /\ LinkerUnchanged

\* GObject.Object.run_dispose() on a source that is no widget: the disposal
\* drops every handler connected on it.  It has no "destroy" signal and the
\* Linker connected no hook on it, so nothing tells the Linker.
RunDispose(gobject) ==
    /\ ~IsWidget(gobject)
    /\ gobject \notin destroyed
    /\ objHandlers' = [objHandlers EXCEPT ![gobject] = <<>>]
    /\ destroyed' = destroyed \cup {gobject}
    /\ last' = [NoLinkerCall EXCEPT !.op = "destroy"]
    /\ UNCHANGED <<linker_bindings, linker_connections, referenced, bound, registered,
                   torn, handles, nextHandler>>
    /\ LinkerUnchanged

\* The application drops its last reference to the source's wrapper: the
\* weak dictionary loses the entry; the source and its handlers live on.
DropReference(gobject) ==
    /\ gobject \in referenced
    /\ referenced' = referenced \ {gobject}
    /\ linker_connections' = WithoutEntry(linker_connections, gobject)
    /\ last' = [NoLinkerCall EXCEPT !.op = "drop"]
    /\ UNCHANGED <<linker_bindings, objHandlers, destroyed, bound, registered, torn,
                   handles, nextHandler>>
    /\ LinkerUnchanged

InitLinker ==
    /\ rules = EmptyDict
    /\ file = FileAbsent
    /\ data = EmptyDict
    /\ pc = "off"
    /\ last = NoLinkerCall
    /\ leafOnly = TRUE
    /\ vfn = "none"
    /\ varg = PyNone
    /\ vres = PyNone
    /\ NoBindings
    /\ linker_bindings = <<>>
    /\ linker_connections = <<>>
    /\ objHandlers = [o \in LinkerObjects |-> <<>>]
    /\ referenced = LinkerObjects
    /\ destroyed = {}
    /\ bound = <<>>
    /\ registered = {}
    /\ torn = {}
    /\ handles = <<>>
    /\ NoSingleton

NextLinker ==
    \/ NewBinding
    \/ \E o \in LinkerObjects : NewConnection(o)
    \/ UnbindAll
    \/ DisconnectAll
    \/ LinkTeardown
    \/ \E o \in LinkerObjects : Emit(o)
    \/ \E o \in LinkerObjects : DestroyWidget(o)
    \/ \E o \in LinkerObjects : RunDispose(o)
    \/ \E o \in LinkerObjects : DropReference(o)

SpecLinker == InitLinker /\ [][NextLinker]_vars

(***************************************************************************)
(* What the specification says of the Linker's teardown.                   *)
(***************************************************************************)
Teardowns == {"link_teardown", "unbind_all", "disconnect_all"}

\* The registered callbacks that are connected on some source.
ConnectedCallbacks(handlers) ==
    {h \in registered :
        \E o \in DOMAIN handlers : \E i \in 1..Len(handlers[o]) : handlers[o][i].id = h}

\* C19: the Linker's teardown methods are idempotent.  After unbind_all (alone
\* or in link_teardown) the binding registry is empty and no binding is bound;
\* after disconnect_all (alone or in link_teardown) the connection registry is
\* empty and, no source having lost its reference, no registered handler is
\* connected; and a call that repeats the same method calls no unbind and no
\* disconnect and changes neither the registries, the bindings nor the handlers.
C19_TeardownIdempotent ==
    [][last'.op \in Teardowns
           => /\ last'.op # "disconnect_all"
                     => /\ linker_bindings' = <<>>
                        /\ \A b \in 1..Len(bound') : ~bound'[b]
              /\ last'.op # "unbind_all"
                     => /\ linker_connections' = <<>>
                        /\ referenced = LinkerObjects
                               => ConnectedCallbacks(objHandlers') = {}
              /\ last'.again
                     => /\ last'.unbinds = <<>> /\ last'.disconnects = <<>>
                        /\ UNCHANGED <<linker_bindings, linker_connections,
                                       objHandlers, bound>>]_vars

\* C19 witness: link_teardown was called a second time in a row, after
\* bindings and connections had been registered on live, referenced sources.
C19_Witness ==
    /\ last.op = "link_teardown" /\ last.again
    /\ Len(bound) > 0 /\ registered # {}
    /\ referenced = LinkerObjects /\ destroyed = {}

\* C20: no callback registered through new_connection is invoked after a
\* teardown (disconnect_all or link_teardown) that covered it has run.
C20_NoCallbackAfterTeardown ==
    last.invoked \cap torn = {}

\* The handles a teardown call released, in the order it released them: the
\* bindings it called unbind() on, then the handler ids it disconnected.
Released(call) ==
    [i \in 1..Len(call.unbinds) |-> [kind |-> "binding", id |-> call.unbinds[i]]]
    \o [i \in 1..Len(call.disconnects) |-> [kind |-> "connection", id |-> call.disconnects[i]]]

\* The place of a handle in the order of registration.
RegisteredAt(handle) == CHOOSE i \in 1..Len(handles) : handles[i] = handle

\* C21: a teardown releases the handles in the order in which they were
\* registered: of two handles it releases, the one that new_binding or
\* new_connection registered first is released first.
C21_TeardownInRegistrationOrder ==
    last.op \in Teardowns =>
        \A i, j \in 1..Len(Released(last)) :
            i < j => RegisteredAt(Released(last)[i]) < RegisteredAt(Released(last)[j])

\* C22: when an object that was passed to new_connection is destroyed, all the
\* handlers registered for it are disconnected and its registry entry is
\* removed, while the entries and the handlers of every other object stay as
\* they were.
C22_DestructionCleansRegistry ==
    [][\A o \in LinkerObjects :
           (o \in destroyed' \ destroyed /\ HasEntry(linker_connections, o))
               => /\ ~HasEntry(linker_connections', o)
                  /\ \A h \in registered : ~handler_is_connected(objHandlers', o, h)
                  /\ WithoutEntry(linker_connections', o) = WithoutEntry(linker_connections, o)
                  /\ \A other \in LinkerObjects \ {o} :
                         objHandlers'[other] = objHandlers[other]]_vars

\* The destruction hooks of the Linker that are connected on a source.
DestroyHooks(gobject) ==
    {i \in 1..Len(objHandlers[gobject]) : objHandlers[gobject][i].hook}

\* C27: a widget carries at most one destruction hook of the Linker at any
\* time, and when disconnect_all or link_teardown has returned the Linker has
\* no handler of its own left connected on it.
C27_AtMostOneDestroyHook ==
    \A o \in LinkerObjects :
        /\ Cardinality(DestroyHooks(o)) <= 1
        /\ last.op \in {"disconnect_all", "link_teardown"} => DestroyHooks(o) = {}

(***************************************************************************)
(* An owner that is a Linker and binds Schema paths to its target.         *)
(* Schema.bind itself makes no call on any Linker; the owner may pass the  *)
(* Binding that bind returned to new_binding, whose unbind_all only needs  *)
(* the object to have an unbind() method.                                  *)
(***************************************************************************)
OwnerUnchanged ==
    UNCHANGED <<rules, leafOnly, vfn, varg, vres, data, file, pc, props, nextHandler,
                objHandlers, referenced, destroyed, bound, registered, handles, svars>>

\* Linker.new_binding(binding) with the Binding of the b-th bind.
OwnerNewBinding(b) ==
    /\ pc = "ready"
    /\ b \in 1..Len(bindings)
    /\ bindings[b].handle
    /\ b \notin Range(linker_bindings)
    /\ linker_bindings' = Append(linker_bindings, b)
    /\ last' = [NoBindCall EXCEPT !.op = "new_binding", !.handle = b]
    /\ UNCHANGED <<bindings, schemaHandlers, targetHandlers, linker_connections, torn>>
    /\ OwnerUnchanged

\* binding.unbind() for each binding of the registry, in order.
RECURSIVE unbind_each(_, _)
unbind_each(hs, registry) ==
    IF registry = <<>> THEN hs
    ELSE unbind_each(unbind(hs, Head(registry)), Tail(registry))

\* Linker.link_teardown of the owner.  torn records the bindings made before it.
OwnerTeardown ==
    /\ pc = "ready"
    /\ LET after == unbind_each([schema |-> schemaHandlers, target |-> targetHandlers],
                                linker_bindings)
       IN  /\ schemaHandlers' = after.schema
           /\ targetHandlers' = after.target
    /\ bindings' = [b \in 1..Len(bindings) |->
                       IF b \in Range(linker_bindings)
                       THEN [bindings[b] EXCEPT !.unbound = TRUE] ELSE bindings[b]]
    /\ linker_bindings' = cleared(linker_bindings)
    /\ linker_connections' = cleared(linker_connections)
    /\ torn' = 1..Len(bindings)
    /\ last' = [NoBindCall EXCEPT !.op = "link_teardown"]
    /\ OwnerUnchanged

NextOwner ==
    \/ \E t \in Targets, o \in PlainOptions : Bind(<<"volume">>, t, "level", o)
    \/ \E b \in 1..MaxBinds : Unbind(b)
    \/ \E v \in BindSetValues : StoreSet(<<"volume">>, v)
    \/ \E t \in Targets, v \in EditValues : TargetEdit(t, v)
    \/ \E b \in 1..MaxBinds : OwnerNewBinding(b)
    \/ OwnerTeardown

SpecOwner == InitBind /\ [][NextOwner]_vars

\* C15: the subscriptions bind created are torn down with the owner's Linker:
\* after link_teardown no binding made before it pushes a store change to its
\* target, and none calls store.set on a notification of its target.
C15_NoDeliveryAfterOwnerTeardown ==
    (last.pushed \cup last.setters) \cap torn = {}

(***************************************************************************)
(* dgutils.singleton.  Two threads call classes whose metaclass is         *)
(* Singleton or GSingleton.  The interpreter may switch threads between    *)
(* any two steps of __call__: the membership test, the construction (which *)
(* runs the class's own __init__), the store into _instances and the       *)
(* final lookup; neither metaclass takes a lock.                           *)
(***************************************************************************)
Threads == {"t1", "t2"}
SingletonClasses == {"Settings", "Cache", "App"}
\* type(cls): App is a GObject class, the others are plain classes.
MetaclassOf(cls) == IF cls = "App" THEN "GSingleton" ELSE "Singleton"

Idle == [pc |-> "idle", cls |-> "none", instance |-> 0]

SingletonUnchanged ==
    UNCHANGED <<rules, file, data, pc, last, leafOnly, vfn, varg, vres, bvars, lvars>>

\* A thread calls cls(...): the metaclass __call__ is entered.
EnterCall(t, cls) ==
    /\ calls[t].pc = "idle"
    /\ calls' = [calls EXCEPT ![t] = [pc |-> "test", cls |-> cls, instance |-> 0]]
    /\ UNCHANGED <<instances, objects, returned>>
    /\ SingletonUnchanged

\* cls not in _instances
is_missing(registry, cls) == cls \notin DOMAIN registry

\* if cls not in _instances:
TestInstances(t) ==
    /\ calls[t].pc = "test"
    /\ calls' = [calls EXCEPT ![t].pc =
                    IF is_missing(instances[MetaclassOf(calls[t].cls)], calls[t].cls)
                    THEN "construct" ELSE "return"]
    /\ UNCHANGED <<instances, objects, returned>>
    /\ SingletonUnchanged

\* instance = super().__call__(*args, **kwargs): the class constructor runs and
\* makes a new object.
ConstructInstance(t) ==
    /\ calls[t].pc = "construct"
    /\ objects' = Append(objects, calls[t].cls)
    /\ calls' = [calls EXCEPT ![t].pc = "store", ![t].instance = Len(objects) + 1]
    /\ UNCHANGED <<instances, returned>>
    /\ SingletonUnchanged

\* _instances[cls] = instance
StoreInstance(t) ==
    /\ calls[t].pc = "store"
    /\ LET meta == MetaclassOf(calls[t].cls)
           registry == instances[meta]
       IN  instances' =
               [instances EXCEPT ![meta] =
                   [c \in DOMAIN registry \cup {calls[t].cls} |->
                       IF c = calls[t].cls THEN calls[t].instance ELSE registry[c]]]
    /\ calls' = [calls EXCEPT ![t].pc = "return"]
    /\ UNCHANGED <<objects, returned>>
    /\ SingletonUnchanged

\* return _instances[cls]
ReturnInstance(t) ==
    /\ calls[t].pc = "return"
    /\ returned' = returned \cup
                      {<<calls[t].cls, instances[MetaclassOf(calls[t].cls)][calls[t].cls]>>}
    /\ calls' = [calls EXCEPT ![t] = Idle]
    /\ UNCHANGED <<instances, objects>>
    /\ SingletonUnchanged

InitSingleton ==
    /\ rules = EmptyDict
    /\ file = FileAbsent
    /\ data = EmptyDict
    /\ pc = "off"
    /\ last = NoCall
    /\ leafOnly = TRUE
    /\ vfn = "none"
    /\ varg = PyNone
    /\ vres = PyNone
    /\ NoBindings
    /\ NoLinker
    /\ instances = [Singleton |-> [c \in {} |-> 0], GSingleton |-> [c \in {} |-> 0]]
    /\ calls = [t \in Threads |-> Idle]
    /\ objects = <<>>
    /\ returned = {}

NextSingleton ==
    \/ \E t \in Threads, cls \in SingletonClasses : EnterCall(t, cls)
    \/ \E t \in Threads : TestInstances(t)
    \/ \E t \in Threads : ConstructInstance(t)
    \/ \E t \in Threads : StoreInstance(t)
    \/ \E t \in Threads : ReturnInstance(t)

SpecSingleton == InitSingleton /\ [][NextSingleton]_vars

\* C23: whatever the number of instantiation calls and however the calls of
\* the two threads interleave, the constructor of a singleton class runs at
\* most once, every call of the class returns the same instance, and the
\* instances of different classes are distinct.
C23_OneInstancePerClass ==
    /\ \A cls \in SingletonClasses :
           Cardinality({i \in 1..Len(objects) : objects[i] = cls}) <= 1
    /\ \A r1, r2 \in returned : (r1[1] = r2[1]) <=> (r1[2] = r2[2])

====
